---- MODULE Spec2Model ----
(***************************************************************************)
(* Model of MgDyn2Dwriter, the Elmer writer of FreeCAD's 2D magnetodynamic *)
(* equation (src/Mod/Fem/femsolver/elmer/equations/                        *)
(* magnetodynamic2D_writer.py).  Each handler of the class is a small      *)
(* state machine over the declarative model it reads (bodies, material     *)
(* objects, constraints, the equation object) and the sif sections of the  *)
(* general writer it fills.                                                *)
(*                                                                         *)
(* Quantities are integers: a current density or a conductivity is held in *)
(* units of 1e-11 of its target unit, so that round(x, 10) is a real       *)
(* rounding step; its result is held in units of 1e-10.                    *)
(***************************************************************************)
EXTENDS Integers, Sequences, FiniteSets

VARIABLES
    bodies,            \* the `bodies` argument of the running handler
    currentDensities,  \* getMember("Fem::ConstraintCurrentDensity")
    materials,         \* getMember("App::MaterialObject")
    potentials,        \* getMember("Fem::ConstraintElectrostaticPotential")
    equation,          \* the equation object
    sifMaterial,       \* writer: Material section, body -> directives
    sifBodyForce,      \* writer: Body Force section, body -> directives
    sifBoundary,       \* writer: Boundary section, name -> directives
    sifEquation,       \* writer: Equation section, body -> directives
    handledCalls,      \* writer: the objects passed to handled(), in call order
    s,                 \* the solver section a getMagnetodynamic2DSolver* returns
    pc,                \* position of the running handler
    err,               \* the WriteError raised, NoError while none
    i,                 \* index of the outer loop (object or body)
    j                  \* index of the inner loop (referenced name or body)

vars == <<bodies, currentDensities, materials, potentials, equation,
          sifMaterial, sifBodyForce, sifBoundary, sifEquation, handledCalls,
          s, pc, err, i, j>>

-----------------------------------------------------------------------------
(* Bounds of the model *)

MaxCD == 2      \* current-density constraints in the model
MaxMat == 2     \* material objects in the model
MaxPot == 2     \* potential constraints in the model
MaxFreq == 2    \* largest angular frequency tried

-----------------------------------------------------------------------------
(* Generic helpers *)

Range(q) == {q[k] : k \in DOMAIN q}

SeqsUpTo(S, n) == UNION {[1..m -> S] : m \in 0..n}

Injective(q) == \A a, b \in DOMAIN q : q[a] = q[b] => a = b

(* Directive values: booleans, numbers and strings in one shape. *)
B(b) == [kind |-> "bool", b |-> b, n |-> 0, s |-> ""]
N(n) == [kind |-> "num", b |-> FALSE, n |-> n, s |-> ""]
S(x) == [kind |-> "str", b |-> FALSE, n |-> 0, s |-> x]

(* A directive group: a mapping from directive name to value. *)
EmptyGroup == [k \in {} |-> N(0)]

(* Assigning a key of a group: a second assignment of a key overwrites. *)
Put(g, key, val) == [k \in DOMAIN g \cup {key} |-> IF k = key THEN val ELSE g[k]]

(* The bodies of the geometry, in the order getAllBodies() lists them. *)
getAllBodies == <<"A", "B">>

AllBodies == Range(getAllBodies)

EmptySection == [b \in AllBodies |-> EmptyGroup]

(* writer.material / bodyForce / boundary / equation: one key of one body. *)
sectionWrite(section, name, key, val) == [section EXCEPT ![name] = Put(@, key, val)]

(* general_writer.WriteError(message); arg is the body the message names. *)
WriteError(msg, arg) == [msg |-> msg, arg |-> arg]

NoError == WriteError("", "")

(* References is a list of (object, sub-element names); only entry 0 is read. *)
NoReferences == <<>>

NameLists == {q \in SeqsUpTo(AllBodies, Cardinality(AllBodies)) : Injective(q)}

RefChoices == {NoReferences} \cup {<<names>> : names \in NameLists}

BodyLists == NameLists

(* round(x, 10): x in units of 1e-11, the result in units of 1e-10; a tie goes *)
(* to the even neighbour, as Python's round does.                              *)
round10(x) ==
    LET q == x \div 10
        r == x % 10
    IN  IF r < 5 THEN q
        ELSE IF r > 5 THEN q + 1
        ELSE IF q % 2 = 0 THEN q ELSE q + 1

(* writer.getFromUi(value, "A/m^2", "I/L^2") and writer.convert(value, dim):   *)
(* the value in the unit system of the solver, SI here.                        *)
getFromUi(q) == q

convert(q) == q

-----------------------------------------------------------------------------
(* The declarative model the handlers read *)

(* Magnitudes of a current density, in 1e-11 A/m^2: 0 and 4 round to 0, *)
(* 16 rounds to 2, 30 to 3 and -6 to -1.                                 *)
Magnitudes == {0, 4, 16, 30, -6}

CurrentDensityObjects == [References : RefChoices, CurrentDensity : Magnitudes]

(* What every handler shares at its entry: empty sections, nothing handled. *)
FreshWriter ==
    /\ sifMaterial = EmptySection
    /\ sifBodyForce = EmptySection
    /\ sifBoundary = EmptySection
    /\ sifEquation = EmptySection
    /\ handledCalls = <<>>
    /\ s = EmptyGroup
    /\ err = NoError
    /\ i = 1
    /\ j = 1

DefaultEquation ==
    [Name |-> "Magnetodynamic2D", IsHarmonic |-> FALSE, AngularFrequency |-> 0,
     Stabilize |-> FALSE,
     CalculateCurrentDensity |-> FALSE, CalculateElectricField |-> FALSE,
     CalculateElementalFields |-> TRUE, CalculateHarmonicLoss |-> FALSE,
     CalculateJouleHeating |-> FALSE, CalculateMagneticFieldStrength |-> FALSE,
     CalculateMaxwellStress |-> FALSE, CalculateNodalFields |-> TRUE,
     CalculateNodalForces |-> FALSE, CalculateNodalHeating |-> FALSE]

(* writer.handled(obj): obj joins the handled objects; a repeat changes nothing. *)
Handled == Range(handledCalls)

Raise(e) == pc' = "error" /\ err' = e

-----------------------------------------------------------------------------
(* handleMagnetodynamic2DBodyForces and _outputMagnetodynamic2DBodyForce *)

ErrNoCurrentDensity ==
    "The Magnetodynamic2D equation needs at least one CurrentDensity constraint."

ErrSeveralWithoutReference ==
    "Several current density constraints found without reference to a body."

ErrZeroCurrentDensity == "The current density must not be zero!"

CD(k) == <<"Fem::ConstraintCurrentDensity", k>>

(* currentDensity after getFromUi and round(currentDensity, 10) *)
currentDensityOf(obj) == round10(getFromUi(obj.CurrentDensity))

(* Mutant: the zero check is missing. *)
IsZeroDensity_Never(v) == FALSE

(* line 154: if currentDensity == 0.0 *)
IsZeroDensity(v) == v = 0

(* Mutant: a constraint without references goes to every body whenever there *)
(* is any constraint at all.                                                  *)
IsOnlyCurrentDensity_Any(cds) == Len(cds) >= 1

(* line 173: if len(currentDensities) == 1 *)
IsOnlyCurrentDensity(cds) == Len(cds) = 1

(* Mutant: the only constraint goes to every body of the geometry. *)
broadcastNames_AllBodies(bs) == getAllBodies

(* line 174: for name in bodies *)
broadcastNames(bs) == bs

(* _outputMagnetodynamic2DBodyForce(obj, name), then the loop index moves on *)
outputMagnetodynamic2DBodyForce(obj, name) ==
    LET currentDensity == currentDensityOf(obj)
    IN  IF IsZeroDensity(currentDensity)
        THEN /\ Raise(WriteError(ErrZeroCurrentDensity, ""))
             /\ UNCHANGED <<sifBodyForce, j>>
        ELSE /\ sifBodyForce' =
                    sectionWrite(sifBodyForce, name, "Current Density", N(currentDensity))
             /\ j' = j + 1
             /\ UNCHANGED <<pc, err>>

BFUnchanged == UNCHANGED <<bodies, currentDensities, materials, potentials, equation,
                           sifMaterial, sifBoundary, sifEquation, s>>

(* lines 160-164 *)
BF_Start ==
    /\ pc = "start"
    /\ IF Len(currentDensities) = 0
       THEN Raise(WriteError(ErrNoCurrentDensity, ""))
       ELSE pc' = "obj" /\ UNCHANGED err
    /\ UNCHANGED <<sifBodyForce, handledCalls, i, j>>
    /\ BFUnchanged

(* lines 165-166, 173, 176-180: the head of the loop over the constraints *)
BF_Obj ==
    /\ pc = "obj"
    /\ IF i > Len(currentDensities)
       THEN pc' = "done" /\ UNCHANGED <<err, j>>
       ELSE IF currentDensities[i].References # NoReferences
       THEN pc' = "refs" /\ j' = 1 /\ UNCHANGED err
       ELSE IF IsOnlyCurrentDensity(currentDensities)
       THEN pc' = "all" /\ j' = 1 /\ UNCHANGED err
       ELSE Raise(WriteError(ErrSeveralWithoutReference, "")) /\ UNCHANGED j
    /\ UNCHANGED <<sifBodyForce, handledCalls, i>>
    /\ BFUnchanged

(* lines 167-168: one referenced name *)
BF_RefOutput ==
    /\ pc = "refs"
    /\ j <= Len(currentDensities[i].References[1])
    /\ outputMagnetodynamic2DBodyForce(currentDensities[i],
                                       currentDensities[i].References[1][j])
    /\ UNCHANGED <<handledCalls, i>>
    /\ BFUnchanged

(* line 169: handled(obj) at the end of the referenced names *)
BF_RefHandled ==
    /\ pc = "refs"
    /\ j > Len(currentDensities[i].References[1])
    /\ handledCalls' = Append(handledCalls, CD(i))
    /\ pc' = "mark"
    /\ UNCHANGED <<sifBodyForce, err, i, j>>
    /\ BFUnchanged

(* lines 174-175: the only constraint, without references, goes to every body *)
BF_AllOutput ==
    /\ pc = "all"
    /\ j <= Len(broadcastNames(bodies))
    /\ outputMagnetodynamic2DBodyForce(currentDensities[i], broadcastNames(bodies)[j])
    /\ UNCHANGED <<handledCalls, i>>
    /\ BFUnchanged

BF_AllEnd ==
    /\ pc = "all"
    /\ j > Len(broadcastNames(bodies))
    /\ pc' = "mark"
    /\ UNCHANGED <<sifBodyForce, handledCalls, err, i, j>>
    /\ BFUnchanged

(* Mutant: line 181 is missing, only line 169 marks. *)
BF_Handled_NoMark ==
    /\ pc = "mark"
    /\ i' = i + 1
    /\ pc' = "obj"
    /\ UNCHANGED <<sifBodyForce, handledCalls, err, j>>
    /\ BFUnchanged

(* line 181: handled(obj) after either branch *)
BF_Handled ==
    /\ pc = "mark"
    /\ handledCalls' = Append(handledCalls, CD(i))
    /\ i' = i + 1
    /\ pc' = "obj"
    /\ UNCHANGED <<sifBodyForce, err, j>>
    /\ BFUnchanged

InitBodyForces ==
    /\ bodies \in BodyLists
    /\ currentDensities \in SeqsUpTo(CurrentDensityObjects, MaxCD)
    /\ materials = <<>>
    /\ potentials = <<>>
    /\ equation = DefaultEquation
    /\ pc = "start"
    /\ FreshWriter

NextBodyForces ==
    \/ BF_Start
    \/ BF_Obj
    \/ BF_RefOutput
    \/ BF_RefHandled
    \/ BF_AllOutput
    \/ BF_AllEnd
    \/ BF_Handled

SpecBodyForces == InitBodyForces /\ [][NextBodyForces]_vars

-----------------------------------------------------------------------------
(* Properties of handleMagnetodynamic2DBodyForces *)

Terminated == pc \in {"done", "error"}

HasReferences(obj) == obj.References # NoReferences

(* The names constraint k is output for. *)
TargetNames(k) ==
    IF HasReferences(currentDensities[k])
    THEN Range(currentDensities[k].References[1])
    ELSE IF Len(currentDensities) = 1 THEN Range(bodies) ELSE {}

RoundsToZero(k) == round10(currentDensities[k].CurrentDensity) = 0

Unreferenced == {k \in DOMAIN currentDensities : ~HasReferences(currentDensities[k])}

FirstUnreferenced == CHOOSE k \in Unreferenced : \A m \in Unreferenced : k <= m

SeveralOneUnreferenced == Len(currentDensities) > 1 /\ Unreferenced # {}

CurrentDensityGroup(v) == Put(EmptyGroup, "Current Density", N(v))

(* C1 as stated: with more than one current-density constraint, one of them *)
(* without references, the call ends in the ambiguous-assignment error,     *)
(* whatever the other constraints are.                                      *)
C1_AlwaysAmbiguous ==
    (SeveralOneUnreferenced /\ Terminated)
        => (pc = "error" /\ err.msg = ErrSeveralWithoutReference)

(* C1 amended: with more than one constraint, one of them without references, *)
(* the call never succeeds; it fails with the ambiguous-assignment error      *)
(* unless a constraint with references ahead of the first unreferenced one    *)
(* names a body and rounds to zero, and then with the zero-source error.      *)
C1_AmbiguousUnlessZeroFirst ==
    SeveralOneUnreferenced =>
        /\ pc # "done"
        /\ pc = "error" =>
              err.msg = IF \E k \in 1..(FirstUnreferenced - 1) :
                               RoundsToZero(k) /\ TargetNames(k) # {}
                        THEN ErrZeroCurrentDensity
                        ELSE ErrSeveralWithoutReference

(* C1 witness: the ambiguous error is raised at the second constraint, after *)
(* the first one has written its directive.                                   *)
C1_Witness ==
    /\ pc = "error"
    /\ err.msg = ErrSeveralWithoutReference
    /\ i = 2
    /\ \E b \in AllBodies : sifBodyForce[b] # EmptyGroup

(* C2: the only constraint, without references and with a rounded magnitude  *)
(* v # 0: the call raises nothing and runs to its end, where every body of   *)
(* `bodies` holds Current Density = v and no other body has a directive.     *)
C2_Broadcast ==
    (/\ Len(currentDensities) = 1
     /\ ~HasReferences(currentDensities[1])
     /\ ~RoundsToZero(1))
        => /\ pc # "error"
           /\ ~Terminated => ENABLED NextBodyForces
           /\ pc = "done" =>
                \A b \in AllBodies :
                    sifBodyForce[b] =
                        IF b \in Range(bodies)
                        THEN CurrentDensityGroup(round10(currentDensities[1].CurrentDensity))
                        ELSE EmptyGroup

(* C2 witness: a broadcast over one of the two bodies has completed. *)
C2_Witness ==
    /\ pc = "done"
    /\ Len(currentDensities) = 1
    /\ ~HasReferences(currentDensities[1])
    /\ Len(bodies) = 1
    /\ sifBodyForce[bodies[1]] = CurrentDensityGroup(2)

(* C3 as stated: with a constraint that rounds to zero in the model, the call *)
(* ends in the zero-source error and never succeeds.                          *)
C3_AlwaysZeroError ==
    ((\E k \in DOMAIN currentDensities : RoundsToZero(k)) /\ Terminated)
        => (pc = "error" /\ err.msg = ErrZeroCurrentDensity)

(* C3 amended: a Current Density of 0 is never written; while a constraint    *)
(* that rounds to zero is to be output for at least one name, the call never  *)
(* succeeds, it fails with the zero-source or the ambiguous-assignment error, *)
(* and with the zero-source error when no constraint among several lacks      *)
(* references.                                                                *)
C3_ZeroNeverWritten ==
    /\ \A b \in AllBodies : sifBodyForce[b] # CurrentDensityGroup(0)
    /\ (\E k \in DOMAIN currentDensities : RoundsToZero(k) /\ TargetNames(k) # {})
          => /\ pc # "done"
             /\ pc = "error" =>
                  /\ err.msg \in {ErrZeroCurrentDensity, ErrSeveralWithoutReference}
                  /\ ~SeveralOneUnreferenced => err.msg = ErrZeroCurrentDensity

(* C3 witness: the zero-source error is raised by the second constraint. *)
C3_Witness ==
    /\ pc = "error"
    /\ err.msg = ErrZeroCurrentDensity
    /\ i = 2
    /\ RoundsToZero(2)

TimesIn(calls, o) == Cardinality({k \in DOMAIN calls : calls[k] = o})

TimesHandled(o) == TimesIn(handledCalls, o)

(* C7: after a successful call every current-density constraint is handled, *)
(* once when it has no references and twice when it has; the second marking *)
(* raises nothing and leaves the handled objects and the Body Force section *)
(* as they were.                                                            *)
C7_AllHandled ==
    /\ [](pc = "done" =>
            \A k \in DOMAIN currentDensities :
                /\ CD(k) \in Handled
                /\ TimesHandled(CD(k)) =
                       IF HasReferences(currentDensities[k]) THEN 2 ELSE 1)
    /\ [][(pc = "mark" /\ CD(i) \in Handled) =>
             /\ pc' # "error"
             /\ err' = err
             /\ sifBodyForce' = sifBodyForce
             /\ Handled' = Handled
             /\ TimesIn(handledCalls', CD(i)) = 2]_vars

(* C7 witness: a successful call over a constraint with references that wrote *)
(* a directive, marked twice.                                                 *)
C7_Witness ==
    /\ pc = "done"
    /\ Len(currentDensities) = 2
    /\ TimesHandled(CD(1)) = 2
    /\ \E b \in AllBodies : sifBodyForce[b] # EmptyGroup

(* C10 as stated: every body that has a Body Force directive is a member of *)
(* the `bodies` argument, during and after the call.                        *)
C10_OnlyBodies ==
    \A b \in AllBodies : sifBodyForce[b] # EmptyGroup => b \in Range(bodies)

-----------------------------------------------------------------------------
(* handleMagnetodynamic2DMaterial *)

ErrNotReferenced == "The body {} is not referenced in any material."

ErrNoConductivity == "The electrical conductivity must be specified for all materials."

ErrNoPermeability == "The relative permeability must be specified for all materials."

(* obj.Material: the properties present (keys) and their values; the value of *)
(* an absent property is not read.  Conductivities are in 1e-11 S/m.          *)
MaterialCards ==
    {[Name |-> "Copper",
      keys |-> {"ElectricalConductivity", "RelativePermeability", "RelativePermittivity"},
      ElectricalConductivity |-> 596, RelativePermeability |-> 1,
      RelativePermittivity |-> 3],
     [Name |-> "Iron",
      keys |-> {"ElectricalConductivity", "RelativePermeability"},
      ElectricalConductivity |-> 104, RelativePermeability |-> 5,
      RelativePermittivity |-> 0],
     [Name |-> "Glass",
      keys |-> {"RelativePermeability", "RelativePermittivity"},
      ElectricalConductivity |-> 0, RelativePermeability |-> 1,
      RelativePermittivity |-> 7],
     [Name |-> "Plasma",
      keys |-> {"ElectricalConductivity"},
      ElectricalConductivity |-> 15, RelativePermeability |-> 0,
      RelativePermittivity |-> 0]}

MaterialObjects == [References : RefChoices, Material : MaterialCards]

(* lines 116-119: the referenced names, or every body of the geometry *)
materialRefs(obj) ==
    IF obj.References # NoReferences THEN obj.References[1] ELSE getAllBodies

(* writer.getBodyMaterial(name) == None: no material object covers the body *)
getBodyMaterialIsNone(name) ==
    ~\E k \in DOMAIN materials :
        materials[k].References = NoReferences
            \/ name \in Range(materials[k].References[1])

(* lines 131-147: the directives written for one body from one material *)
writeMaterial(group, m) ==
    LET g1 == Put(group, "Name", S(m.Name))
        conductivity == round10(convert(m.ElectricalConductivity))
        g2 == Put(g1, "Electric Conductivity", N(conductivity))
        g3 == Put(g2, "Relative Permeability", N(m.RelativePermeability))
    IN  IF "RelativePermittivity" \in m.keys
        THEN Put(g3, "Relative Permittivity", N(m.RelativePermittivity))
        ELSE g3

MATUnchanged == UNCHANGED <<bodies, currentDensities, materials, potentials, equation,
                            sifBodyForce, sifBoundary, sifEquation, handledCalls, s>>

(* Mutant: the check that every body has a material is missing. *)
MAT_Check_Missing ==
    /\ pc = "start"
    /\ pc' = "names"
    /\ UNCHANGED <<sifMaterial, err, i, j>>
    /\ MATUnchanged

(* lines 109-113: the first body of `bodies` without a material raises *)
MAT_Check ==
    /\ pc = "start"
    /\ LET none == {k \in DOMAIN bodies : getBodyMaterialIsNone(bodies[k])}
       IN  IF none # {}
           THEN Raise(WriteError(ErrNotReferenced,
                                 bodies[CHOOSE k \in none : \A m \in none : k <= m]))
           ELSE pc' = "names" /\ UNCHANGED err
    /\ UNCHANGED <<sifMaterial, i, j>>
    /\ MATUnchanged

(* line 120: a referenced name that is not in `bodies` is passed over *)
MAT_Skip ==
    /\ pc = "names"
    /\ i <= Len(materials)
    /\ j <= Len(materialRefs(materials[i]))
    /\ materialRefs(materials[i])[j] \notin Range(bodies)
    /\ j' = j + 1
    /\ UNCHANGED <<sifMaterial, pc, err, i>>
    /\ MATUnchanged

(* lines 120-147: one name of one material object *)
MAT_Write ==
    /\ pc = "names"
    /\ i <= Len(materials)
    /\ j <= Len(materialRefs(materials[i]))
    /\ LET m == materials[i].Material
           name == materialRefs(materials[i])[j]
       IN  /\ name \in Range(bodies)
           /\ IF "ElectricalConductivity" \notin m.keys
              THEN /\ Raise(WriteError(ErrNoConductivity, ""))
                   /\ UNCHANGED <<sifMaterial, j>>
              ELSE IF "RelativePermeability" \notin m.keys
              THEN /\ Raise(WriteError(ErrNoPermeability, ""))
                   /\ UNCHANGED <<sifMaterial, j>>
              ELSE /\ sifMaterial' =
                          [sifMaterial EXCEPT ![name] = writeMaterial(@, m)]
                   /\ j' = j + 1
                   /\ UNCHANGED <<pc, err>>
    /\ UNCHANGED i
    /\ MATUnchanged

(* line 114: the next material object *)
MAT_NextObj ==
    /\ pc = "names"
    /\ i <= Len(materials)
    /\ j > Len(materialRefs(materials[i]))
    /\ i' = i + 1
    /\ j' = 1
    /\ UNCHANGED <<sifMaterial, pc, err>>
    /\ MATUnchanged

MAT_Done ==
    /\ pc = "names"
    /\ i > Len(materials)
    /\ pc' = "done"
    /\ UNCHANGED <<sifMaterial, err, i, j>>
    /\ MATUnchanged

InitMaterial ==
    /\ bodies \in BodyLists
    /\ materials \in SeqsUpTo(MaterialObjects, MaxMat)
    /\ currentDensities = <<>>
    /\ potentials = <<>>
    /\ equation = DefaultEquation
    /\ pc = "start"
    /\ FreshWriter

NextMaterial ==
    \/ MAT_Check
    \/ MAT_Skip
    \/ MAT_Write
    \/ MAT_NextObj
    \/ MAT_Done

SpecMaterial == InitMaterial /\ [][NextMaterial]_vars

-----------------------------------------------------------------------------
(* Properties of handleMagnetodynamic2DMaterial *)

(* C4: when a body of `bodies` has no material, the call fails with the    *)
(* unassigned-body error naming a body of `bodies` that has no material, and *)
(* no Material directive is ever written.                                  *)
C4_UnassignedFirst ==
    (\E b \in Range(bodies) : getBodyMaterialIsNone(b))
        => /\ sifMaterial = EmptySection
           /\ pc # "done"
           /\ pc # "start" => /\ pc = "error"
                              /\ err.msg = ErrNotReferenced
                              /\ err.arg \in Range(bodies)
                              /\ getBodyMaterialIsNone(err.arg)

(* C4 witness: the error names the second body; the first body, listed before *)
(* it, has a complete material and got no directive.                          *)
C4_Witness ==
    /\ pc = "error"
    /\ err.msg = ErrNotReferenced
    /\ Len(bodies) = 2
    /\ err.arg = bodies[2]
    /\ \E k \in DOMAIN materials :
          /\ materials[k].Material.Name = "Copper"
          /\ bodies[1] \in Range(materialRefs(materials[k]))

Covers(k, b) == b \in Range(materialRefs(materials[k]))

LastCovering(b) ==
    CHOOSE k \in DOMAIN materials :
        Covers(k, b) /\ \A m \in DOMAIN materials : Covers(m, b) => m <= k

(* C9 as stated: after a successful call the Material group of each body of *)
(* `bodies` holds exactly the directives of the last material object that   *)
(* covers the body, and nothing of an earlier one.                          *)
C9_SingleAssignment ==
    pc = "done" =>
        \A b \in Range(bodies) :
            sifMaterial[b] = writeMaterial(EmptyGroup, materials[LastCovering(b)].Material)

-----------------------------------------------------------------------------
(* handleMagnetodynamic2DBndConditions *)

POT(k) == <<"Fem::ConstraintElectrostaticPotential", k>>

(* The settings of a potential constraint: its label (possibly empty), whether *)
(* the potential is enabled, whether the object has a Potential property, the  *)
(* potential in V, and the infinity flag.                                      *)
PotentialSettings ==
    {[Label |-> "Ground", PotentialEnabled |-> TRUE, hasPotential |-> TRUE,
      Potential |-> 0, ElectricInfinity |-> FALSE],
     [Label |-> "", PotentialEnabled |-> TRUE, hasPotential |-> FALSE,
      Potential |-> 0, ElectricInfinity |-> TRUE],
     [Label |-> "Far", PotentialEnabled |-> FALSE, hasPotential |-> TRUE,
      Potential |-> 5, ElectricInfinity |-> TRUE],
     [Label |-> "", PotentialEnabled |-> FALSE, hasPotential |-> TRUE,
      Potential |-> 5, ElectricInfinity |-> FALSE]}

PotentialObjects ==
    {[References |-> r, Label |-> p.Label, PotentialEnabled |-> p.PotentialEnabled,
      hasPotential |-> p.hasPotential, Potential |-> p.Potential,
      ElectricInfinity |-> p.ElectricInfinity] : r \in RefChoices, p \in PotentialSettings}

(* lines 188-195: the directives written for one referenced name *)
writeBoundary(group, obj) ==
    LET g1 == IF obj.Label # "" THEN Put(group, "! FreeCAD Name", S(obj.Label)) ELSE group
        g2 == IF obj.PotentialEnabled /\ obj.hasPotential
              THEN Put(g1, "Potential", N(obj.Potential))
              ELSE g1
    IN  IF obj.ElectricInfinity THEN Put(g2, "Infinity BC", B(TRUE)) ELSE g2

BNDUnchanged == UNCHANGED <<bodies, currentDensities, materials, potentials, equation,
                            sifMaterial, sifBodyForce, sifEquation, s, err>>

(* lines 186-195: one referenced name of a constraint with references *)
BND_Name ==
    /\ pc = "objs"
    /\ i <= Len(potentials)
    /\ potentials[i].References # NoReferences
    /\ j <= Len(potentials[i].References[1])
    /\ sifBoundary' = [sifBoundary EXCEPT ![potentials[i].References[1][j]] =
                                               writeBoundary(@, potentials[i])]
    /\ j' = j + 1
    /\ UNCHANGED <<handledCalls, pc, i>>
    /\ BNDUnchanged

(* line 196: handled(obj) after the referenced names *)
BND_Handled ==
    /\ pc = "objs"
    /\ i <= Len(potentials)
    /\ potentials[i].References # NoReferences
    /\ j > Len(potentials[i].References[1])
    /\ handledCalls' = Append(handledCalls, POT(i))
    /\ i' = i + 1
    /\ j' = 1
    /\ UNCHANGED <<sifBoundary, pc>>
    /\ BNDUnchanged

(* Mutant: handled(obj) is called for every constraint, referenced or not. *)
BND_NoReferences_Handled ==
    /\ pc = "objs"
    /\ i <= Len(potentials)
    /\ potentials[i].References = NoReferences
    /\ handledCalls' = Append(handledCalls, POT(i))
    /\ i' = i + 1
    /\ UNCHANGED <<sifBoundary, pc, j>>
    /\ BNDUnchanged

(* line 185: a constraint without references is passed over *)
BND_NoReferences ==
    /\ pc = "objs"
    /\ i <= Len(potentials)
    /\ potentials[i].References = NoReferences
    /\ i' = i + 1
    /\ UNCHANGED <<sifBoundary, handledCalls, pc, j>>
    /\ BNDUnchanged

BND_Done ==
    /\ pc = "objs"
    /\ i > Len(potentials)
    /\ pc' = "done"
    /\ UNCHANGED <<sifBoundary, handledCalls, i, j>>
    /\ BNDUnchanged

InitBndConditions ==
    /\ bodies = <<>>
    /\ potentials \in SeqsUpTo(PotentialObjects, MaxPot)
    /\ currentDensities = <<>>
    /\ materials = <<>>
    /\ equation = DefaultEquation
    /\ pc = "objs"
    /\ FreshWriter

NextBndConditions ==
    \/ BND_Name
    \/ BND_Handled
    \/ BND_NoReferences
    \/ BND_Done

SpecBndConditions == InitBndConditions /\ [][NextBndConditions]_vars

(* C8: the call never fails; a name has Boundary directives only when a   *)
(* potential constraint lists it in its references; a constraint without  *)
(* references is never marked handled.                                    *)
C8_ReferencedOnly ==
    /\ pc # "error"
    /\ err = NoError
    /\ \A b \in AllBodies :
          sifBoundary[b] # EmptyGroup =>
              \E k \in DOMAIN potentials :
                  /\ potentials[k].References # NoReferences
                  /\ b \in Range(potentials[k].References[1])
    /\ \A k \in DOMAIN potentials :
          potentials[k].References = NoReferences => POT(k) \notin Handled

(* C8 witness: the call is over; the only potential constraint has a label *)
(* and an infinity flag to write, no references, and wrote nothing.        *)
C8_Witness ==
    /\ pc = "done"
    /\ Len(potentials) = 1
    /\ potentials[1].References = NoReferences
    /\ potentials[1].Label = "Far"
    /\ sifBoundary = EmptySection

-----------------------------------------------------------------------------
(* handleMagnetodynamic2DEquation *)

ErrZeroFrequency == "The angular frequency must not be zero."

(* Mutant: the frequency is checked in every mode. *)
zeroFrequencyRaises_AnyMode(eq) == eq.AngularFrequency = 0

(* line 200: if equation.IsHarmonic and (equation.AngularFrequency == 0) *)
zeroFrequencyRaises(eq) == eq.IsHarmonic /\ (eq.AngularFrequency = 0)

(* lines 204-206: Name and Angular Frequency of one body *)
writeEquation(group, eq) ==
    Put(Put(group, "Name", S(eq.Name)), "Angular Frequency", N(eq.AngularFrequency))

EQUnchanged == UNCHANGED <<bodies, currentDensities, materials, potentials, equation,
                           sifMaterial, sifBodyForce, sifBoundary, handledCalls, s, j>>

(* lines 199-206: one body *)
EQ_Body ==
    /\ pc = "bodies"
    /\ i <= Len(bodies)
    /\ IF zeroFrequencyRaises(equation)
       THEN /\ Raise(WriteError(ErrZeroFrequency, ""))
            /\ UNCHANGED <<sifEquation, i>>
       ELSE /\ sifEquation' = [sifEquation EXCEPT ![bodies[i]] = writeEquation(@, equation)]
            /\ i' = i + 1
            /\ UNCHANGED <<pc, err>>
    /\ EQUnchanged

EQ_Done ==
    /\ pc = "bodies"
    /\ i > Len(bodies)
    /\ pc' = "done"
    /\ UNCHANGED <<sifEquation, err, i>>
    /\ EQUnchanged

InitEquation ==
    /\ bodies \in BodyLists
    /\ equation \in {[DefaultEquation EXCEPT !.IsHarmonic = h, !.AngularFrequency = f,
                                             !.Stabilize = st] :
                        h \in BOOLEAN, f \in 0..MaxFreq, st \in BOOLEAN}
    /\ currentDensities = <<>>
    /\ materials = <<>>
    /\ potentials = <<>>
    /\ pc = "bodies"
    /\ FreshWriter

NextEquation ==
    \/ EQ_Body
    \/ EQ_Done

SpecEquation == InitEquation /\ [][NextEquation]_vars

(* C5: the call fails, with the zero-frequency error, exactly when the       *)
(* equation is harmonic, its angular frequency is 0 and `bodies` is not      *)
(* empty, and then no Equation directive has been written; a non-harmonic    *)
(* equation never fails and ends with Name and Angular Frequency written for *)
(* every body, also at frequency 0.                                          *)
C5_ZeroFrequency ==
    LET failing == /\ equation.IsHarmonic
                   /\ equation.AngularFrequency = 0
                   /\ Len(bodies) > 0
    IN  /\ pc = "error" => /\ failing
                           /\ err.msg = ErrZeroFrequency
                           /\ sifEquation = EmptySection
        /\ failing => (pc # "done" /\ sifEquation = EmptySection)
        /\ (pc = "done" /\ ~equation.IsHarmonic) =>
               \A b \in Range(bodies) :
                   sifEquation[b] = [k \in {"Name", "Angular Frequency"} |->
                                        IF k = "Name" THEN S(equation.Name)
                                        ELSE N(equation.AngularFrequency)]
        /\ ~Terminated => ENABLED NextEquation

(* C5 witness: a harmonic equation at frequency 0 has failed over two bodies. *)
C5_Witness ==
    /\ pc = "error"
    /\ err.msg = ErrZeroFrequency
    /\ Len(bodies) = 2

-----------------------------------------------------------------------------
(* getMagnetodynamic2DSolver and getMagnetodynamic2DSolverPost *)

(* writer.createNonlinearSolver(equation): the section the solver settings are *)
(* added to; the keys it brings along are none of the keys set here.           *)
createNonlinearSolver(eq) == EmptyGroup

(* lines 45-57 *)
getMagnetodynamic2DSolver(eq) ==
    LET s0 == createNonlinearSolver(eq)
        s1 == IF ~eq.IsHarmonic
              THEN Put(Put(Put(s0, "Equation", S("MgDyn2D")),
                           "Procedure", S("MagnetoDynamics2D/MagnetoDynamics2D")),
                       "Variable", S("Potential"))
              ELSE Put(Put(Put(s0, "Equation", S("MgDyn2DHarmonic")),
                           "Procedure", S("MagnetoDynamics2D/MagnetoDynamics2DHarmonic")),
                       "Variable", S("Potential[Potential Re:1 Potential Im:1]"))
        s2 == Put(s1, "Exec Solver", S("Always"))
        s3 == Put(s2, "Optimize Bandwidth", B(TRUE))
    IN  Put(s3, "Stabilize", B(eq.Stabilize))

(* if equation.<flag> is True: s[key] = True *)
setIfTrue(g, key, flag) == IF flag = TRUE THEN Put(g, key, B(TRUE)) ELSE g

(* Mutant: the flag is written when it is set, like the flags that default to *)
(* false.                                                                     *)
setIfFalse_WhenTrue(g, key, flag) == IF flag = TRUE THEN Put(g, key, B(TRUE)) ELSE g

(* if equation.<flag> is False: s[key] = False *)
setIfFalse(g, key, flag) == IF flag = FALSE THEN Put(g, key, B(FALSE)) ELSE g

(* lines 61-90 *)
getMagnetodynamic2DSolverPost(eq) ==
    LET s0 == createNonlinearSolver(eq)
        s1 == Put(s0, "Equation", S("MgDyn2DPost"))
        s2 == Put(s1, "Exec Solver", S("Always"))
        s3 == Put(s2, "Procedure", S("MagnetoDynamics/MagnetoDynamicsCalcFields"))
        s4 == IF eq.IsHarmonic
              THEN Put(s3, "Angular Frequency", N(eq.AngularFrequency))
              ELSE s3
        s5 == Put(s4, "Potential Variable", S("Potential"))
        s6 == setIfTrue(s5, "Calculate Current Density", eq.CalculateCurrentDensity)
        s7 == setIfTrue(s6, "Calculate Electric Field", eq.CalculateElectricField)
        s8 == setIfFalse(s7, "Calculate Elemental Fields", eq.CalculateElementalFields)
        s9 == setIfTrue(s8, "Calculate Harmonic Loss", eq.CalculateHarmonicLoss)
        s10 == setIfTrue(s9, "Calculate Joule Heating", eq.CalculateJouleHeating)
        s11 == setIfTrue(s10, "Calculate Magnetic Field Strength",
                         eq.CalculateMagneticFieldStrength)
        s12 == setIfTrue(s11, "Calculate Maxwell Stress", eq.CalculateMaxwellStress)
        s13 == setIfFalse(s12, "Calculate Nodal Fields", eq.CalculateNodalFields)
        s14 == setIfTrue(s13, "Calculate Nodal Forces", eq.CalculateNodalForces)
        s15 == setIfTrue(s14, "Calculate Nodal Heating", eq.CalculateNodalHeating)
        s16 == Put(s15, "Optimize Bandwidth", B(TRUE))
    IN  Put(s16, "Stabilize", B(eq.Stabilize))

SOLUnchanged == UNCHANGED <<bodies, currentDensities, materials, potentials, equation,
                            sifMaterial, sifBodyForce, sifBoundary, sifEquation,
                            handledCalls, err, i, j>>

SOL_Solver ==
    /\ pc = "call"
    /\ s' = getMagnetodynamic2DSolver(equation)
    /\ pc' = "solver"
    /\ SOLUnchanged

SOL_SolverPost ==
    /\ pc = "call"
    /\ s' = getMagnetodynamic2DSolverPost(equation)
    /\ pc' = "post"
    /\ SOLUnchanged

(* The ten calculation flags of the equation object. *)
CalculateFlags ==
    {"CalculateCurrentDensity", "CalculateElectricField", "CalculateElementalFields",
     "CalculateHarmonicLoss", "CalculateJouleHeating", "CalculateMagneticFieldStrength",
     "CalculateMaxwellStress", "CalculateNodalFields", "CalculateNodalForces",
     "CalculateNodalHeating"}

InitSolver ==
    /\ equation \in {[k \in DOMAIN DefaultEquation |->
                         IF k \in CalculateFlags THEN flags[k]
                         ELSE IF k = "IsHarmonic" THEN h
                         ELSE IF k = "AngularFrequency" THEN f
                         ELSE IF k = "Stabilize" THEN st
                         ELSE DefaultEquation[k]] :
                        flags \in [CalculateFlags -> BOOLEAN], h \in BOOLEAN,
                        f \in 0..MaxFreq, st \in BOOLEAN}
    /\ bodies = <<>>
    /\ currentDensities = <<>>
    /\ materials = <<>>
    /\ potentials = <<>>
    /\ pc = "call"
    /\ FreshWriter

NextSolver ==
    \/ SOL_Solver
    \/ SOL_SolverPost

SpecSolver == InitSolver /\ [][NextSolver]_vars

(* The directive of each calculation flag and the default of the flag. *)
FlagDirective ==
    [f \in CalculateFlags |->
        CASE f = "CalculateCurrentDensity" -> "Calculate Current Density"
          [] f = "CalculateElectricField" -> "Calculate Electric Field"
          [] f = "CalculateElementalFields" -> "Calculate Elemental Fields"
          [] f = "CalculateHarmonicLoss" -> "Calculate Harmonic Loss"
          [] f = "CalculateJouleHeating" -> "Calculate Joule Heating"
          [] f = "CalculateMagneticFieldStrength" -> "Calculate Magnetic Field Strength"
          [] f = "CalculateMaxwellStress" -> "Calculate Maxwell Stress"
          [] f = "CalculateNodalFields" -> "Calculate Nodal Fields"
          [] f = "CalculateNodalForces" -> "Calculate Nodal Forces"
          [] f = "CalculateNodalHeating" -> "Calculate Nodal Heating"]

FlagDefault ==
    [f \in CalculateFlags |-> f \in {"CalculateElementalFields", "CalculateNodalFields"}]

(* C6: the post solver section holds the directive of a calculation flag   *)
(* exactly when the flag differs from its default (true for elemental and  *)
(* nodal fields, false for the other eight), and then with the flag's      *)
(* value.                                                                  *)
C6_FlagsOnDeviation ==
    pc = "post" =>
        \A f \in CalculateFlags :
            /\ (FlagDirective[f] \in DOMAIN s) <=> (equation[f] # FlagDefault[f])
            /\ FlagDirective[f] \in DOMAIN s => s[FlagDirective[f]] = B(equation[f])

(* C6 witness: elemental fields switched off and written as false, nodal  *)
(* fields left at the default and not written, one of the other flags set. *)
C6_Witness ==
    /\ pc = "post"
    /\ "Calculate Elemental Fields" \in DOMAIN s
    /\ s["Calculate Elemental Fields"] = B(FALSE)
    /\ "Calculate Nodal Fields" \notin DOMAIN s
    /\ equation.CalculateMaxwellStress
    /\ ~equation.CalculateJouleHeating

====
